---- MODULE Spec2Model ----
(***************************************************************************)
(* A model of src/rnn/model.py: the RNN_model wrapper (label vocabulary,   *)
(* lazily built network, train / test / predict), its dataset loader       *)
(* (load_dataset, get_sents_from_df, encode_inputs, encode_outputs) and    *)
(* the module-level pad_sequences.                                         *)
(*                                                                         *)
(* Two specifications:                                                     *)
(*   Spec      one RNN_model instance and the calls made on it, in any     *)
(*             order, each on any file of a small corpus;                  *)
(*   SpecCalls one call of pad_sequences, get_sents_from_df or             *)
(*             load_dataset on an argument drawn from a bounded set.       *)
(*                                                                         *)
(* Python values: a list is a sequence, a data frame is the sequence of    *)
(* its rows, a class index is 0-based as in numpy, and position p of a     *)
(* Python list is element p + 1 of the sequence.  Labels are numbered in   *)
(* the order numpy sorts them (label 1 < label 2 < ...).                   *)
(***************************************************************************)
EXTENDS Integers, Sequences, FiniteSets, TLC

VARIABLES
    sent_maxlen,  \* self.sent_maxlen
    encoder,      \* self.encoder (sklearn LabelEncoder): fitted?, classes_
    model,        \* self.model: built?, input_length, output_dim
    call,         \* the last call: its name and the exception it raised
    args,         \* SpecCalls: the argument of the call
    ret,          \* SpecCalls: what the call returned
    loaded        \* history: the labels of the file read last

vars == <<sent_maxlen, encoder, model, call, args, ret, loaded>>

---------------------------------------------------------------------------
(* Bounds *)

\* rows of a data frame handed to one call (SpecCalls)
MaxRows == 4
\* largest run_id of a row
MaxRunId == 2
\* largest sent_maxlen an instance is constructed with
MaxSentMaxlen == 2
\* rows of a file of the corpus the instance is run on (Spec)
MaxFileRows == 2
\* sequences handed to one pad_sequences call, and the length of each
MaxSeqs == 3
MaxSeqLen == 3

\* the labels of the label column, in sort order
Labels == {1, 2}
\* the values pad_func produces in direct pad_sequences calls
Pads == {0, -1}

---------------------------------------------------------------------------
(* Python and numpy primitives *)

None == <<>>
Some(n) == <<n>>

Min(a, b) == IF a <= b THEN a ELSE b
Max(a, b) == IF a >= b THEN a ELSE b

\* s[:n]
Slice(s, n) ==
    IF n >= 0 THEN SubSeq(s, 1, Min(n, Len(s)))
    ELSE SubSeq(s, 1, Max(0, Len(s) + n))

\* [x] * n
Repeat(x, n) == [i \in 1..n |-> x]

\* max(xs) of a non-empty list of integers
MaxOf(xs) == CHOOSE m \in {xs[i] : i \in DOMAIN xs} : \A i \in DOMAIN xs : xs[i] <= m
MinOf(xs) == CHOOSE m \in {xs[i] : i \in DOMAIN xs} : \A i \in DOMAIN xs : m <= xs[i]

\* range(a, b)
Range(a, b) == [i \in 1..(b - a) |-> a + i - 1]

Raise(e) == [raised |-> e, value |-> <<>>]
Return(v) == [raised |-> "none", value |-> v]

---------------------------------------------------------------------------
(* pad_sequences *)

\* the slip "pad to the requested length": maxlen is not capped by the
\* longest observed sequence
pad_sequences_nocap(sequences, pad_func, maxlen) ==
    IF sequences = <<>> THEN Raise("ValueError")
    ELSE
        LET max_value == MaxOf([i \in DOMAIN sequences |-> Len(sequences[i])])
            eff == IF maxlen = None THEN max_value ELSE maxlen[1]
        IN  Return([i \in DOMAIN sequences |->
                Slice(sequences[i], eff) \o Repeat(pad_func, eff - Len(sequences[i]))])

\* the slip "left padding"
pad_sequences_left(sequences, pad_func, maxlen) ==
    IF sequences = <<>> THEN Raise("ValueError")
    ELSE
        LET max_value == MaxOf([i \in DOMAIN sequences |-> Len(sequences[i])])
            eff == IF maxlen = None THEN max_value ELSE Min(max_value, maxlen[1])
        IN  Return([i \in DOMAIN sequences |->
                Repeat(pad_func, eff - Len(sequences[i])) \o Slice(sequences[i], eff)])

\* the slip "guard the empty collection": returns [] instead of raising
pad_sequences_guarded(sequences, pad_func, maxlen) ==
    IF sequences = <<>> THEN Return(<<>>)
    ELSE
        LET max_value == MaxOf([i \in DOMAIN sequences |-> Len(sequences[i])])
            eff == IF maxlen = None THEN max_value ELSE Min(max_value, maxlen[1])
        IN  Return([i \in DOMAIN sequences |->
                Slice(sequences[i], eff) \o Repeat(pad_func, eff - Len(sequences[i]))])

\* pad_func stands for the value pad_func() produces; max() of an empty
\* list raises ValueError
pad_sequences(sequences, pad_func, maxlen) ==
    IF sequences = <<>> THEN Raise("ValueError")
    ELSE
        LET max_value == MaxOf([i \in DOMAIN sequences |-> Len(sequences[i])])
            eff == IF maxlen = None THEN max_value ELSE Min(max_value, maxlen[1])
        IN  Return([i \in DOMAIN sequences |->
                Slice(sequences[i], eff) \o Repeat(pad_func, eff - Len(sequences[i]))])

---------------------------------------------------------------------------
(* Arguments of direct pad_sequences calls: the elements are numbered      *)
(* 1, 2, 3, ... through the collection, so every element is identified by  *)
(* its value; lens gives the length of each sequence.                      *)

RECURSIVE SumTo(_, _)
SumTo(lens, i) == IF i = 0 THEN 0 ELSE lens[i] + SumTo(lens, i - 1)

Numbered(lens) ==
    [i \in DOMAIN lens |-> [j \in 1..lens[i] |-> SumTo(lens, i - 1) + j]]

MaxlenArgs == {None} \cup {Some(n) : n \in 0..(MaxSeqLen + 1)}

---------------------------------------------------------------------------
(* Data frames.  A row is one line of the file: run_id, word, pred, label. *)
(* Row k of a frame holds word token 2k - 1 and predicate token 2k, so a   *)
(* row is identified by either token; run_id and label are free.           *)

MkRow(k, r, l) == [run_id |-> r, word |-> 2 * k - 1, pred |-> 2 * k, label |-> l]

\* the frame whose row k has run_id c[k][1] and label c[k][2]
Frame(c) == [k \in DOMAIN c |-> MkRow(k, c[k][1], c[k][2])]

FramesOf(n, run_ids) == {Frame(c) : c \in [1..n -> run_ids \X Labels]}

FramesUpTo(n, run_ids) == UNION {FramesOf(m, run_ids) : m \in 0..n}

\* df.<column>.values
Column(df, name) == [k \in DOMAIN df |-> df[k][name]]

---------------------------------------------------------------------------
(* The embedding provider (emb.get_word_index) *)

get_word_index(w) == w + 1

---------------------------------------------------------------------------
(* sklearn's LabelEncoder and keras' np_utils.to_categorical, as the code  *)
(* calls them                                                              *)

RECURSIVE SortedSeq(_)
SortedSeq(S) ==
    IF S = {} THEN <<>>
    ELSE LET m == CHOOSE x \in S : \A y \in S : x <= y
         IN  <<m>> \o SortedSeq(S \ {m})

\* the slip "classes_ is the label column as read" (not np.unique of it)
LabelEncoder_fit_raw(y) == [fitted |-> TRUE, classes_ |-> y]

\* encoder.fit(y): classes_ = np.unique(y), the sorted distinct labels
LabelEncoder_fit(y) ==
    [fitted |-> TRUE, classes_ |-> SortedSeq({y[i] : i \in DOMAIN y})]

\* np.searchsorted(classes_, v)
searchsorted(classes_, v) == Cardinality({k \in DOMAIN classes_ : classes_[k] < v})

\* encoder.transform(y)
LabelEncoder_transform(enc, y) == [i \in DOMAIN y |-> searchsorted(enc.classes_, y[i])]

\* encoder.inverse_transform(i) = classes_[i]
decode_label(enc, encoded_label) == enc.classes_[encoded_label + 1]

classes_(enc) == enc.classes_

num_of_classes(enc) == Len(classes_(enc))

OneHot(c, nb_classes) == [k \in 1..nb_classes |-> IF k = c + 1 THEN 1 ELSE 0]

\* to_categorical(y) with nb_classes left out: nb_classes = np.max(y) + 1,
\* and np.max of an empty array raises ValueError
to_categorical(y) ==
    IF y = <<>> THEN Raise("ValueError")
    ELSE LET nb_classes == MaxOf(y) + 1
         IN  Return([i \in DOMAIN y |-> OneHot(y[i], nb_classes)])

---------------------------------------------------------------------------
(* Sample, Pad_sample *)

Sample(word) == [word |-> word]
Sample_encode(sample) == sample.word
Pad_sample == Sample(0)

---------------------------------------------------------------------------
(* The dataset loader *)

\* the slip range(min, max + 1)
get_sents_from_df_incl(df) ==
    IF df = <<>> THEN Raise("ValueError")
    ELSE LET ids == Range(MinOf(Column(df, "run_id")), MaxOf(Column(df, "run_id")) + 1)
         IN  Return([s \in DOMAIN ids |->
                 SelectSeq(df, LAMBDA row : row.run_id = ids[s])])

\* [df[df.run_id == i] for i in range(min(df.run_id), max(df.run_id))];
\* min() of an empty column raises ValueError
get_sents_from_df(df) ==
    IF df = <<>> THEN Raise("ValueError")
    ELSE LET ids == Range(MinOf(Column(df, "run_id")), MaxOf(Column(df, "run_id")))
         IN  Return([s \in DOMAIN ids |->
                 SelectSeq(df, LAMBDA row : row.run_id = ids[s])])

NoInputs == [word_inputs |-> <<>>, predicate_inputs |-> <<>>]

EncodeColumn(sents, name) ==
    [s \in DOMAIN sents |->
        [k \in DOMAIN sents[s] |-> Sample(get_word_index(sents[s][k][name]))]]

EncodeSamples(padded) ==
    [i \in DOMAIN padded |-> [j \in DOMAIN padded[i] |-> Sample_encode(padded[i][j])]]

\* the slip "predicate_inputs is built from the word column"
encode_inputs_words(sents, maxlen) ==
    LET w == pad_sequences(EncodeColumn(sents, "word"), Pad_sample, Some(maxlen))
    IN  IF w.raised # "none" THEN [raised |-> w.raised, value |-> NoInputs]
        ELSE Return([word_inputs |-> EncodeSamples(w.value),
                     predicate_inputs |-> EncodeSamples(w.value)])

\* encode_inputs(sents), with maxlen = self.sent_maxlen
encode_inputs(sents, maxlen) ==
    LET w == pad_sequences(EncodeColumn(sents, "word"), Pad_sample, Some(maxlen))
        p == pad_sequences(EncodeColumn(sents, "pred"), Pad_sample, Some(maxlen))
    IN  IF w.raised # "none" THEN [raised |-> w.raised, value |-> NoInputs]
        ELSE IF p.raised # "none" THEN [raised |-> p.raised, value |-> NoInputs]
        ELSE Return([word_inputs |-> EncodeSamples(w.value),
                     predicate_inputs |-> EncodeSamples(p.value)])

\* encode_outputs(sents) up to the final np.array, with enc = self.encoder
\* and maxlen = self.sent_maxlen
encode_outputs(sents, enc, maxlen) ==
    LET cat == [s \in DOMAIN sents |->
                   to_categorical(LabelEncoder_transform(enc, Column(sents[s], "label")))]
    IN  IF \E s \in DOMAIN cat : cat[s].raised # "none" THEN Raise("ValueError")
        ELSE pad_sequences([s \in DOMAIN cat |-> cat[s].value],
                           Repeat(0, num_of_classes(enc)), Some(maxlen))

\* np.array(v) of nested lists is a rectangular array when all class
\* vectors have one width; otherwise numpy either builds an array of
\* objects or raises ValueError, depending on its version
Widths(padded) ==
    UNION {{Len(padded[i][j]) : j \in DOMAIN padded[i]} : i \in DOMAIN padded}

Rectangular(padded) == Cardinality(Widths(padded)) <= 1

NpRagged == {"object_array", "ValueError"}

NoDataset(enc, e) == [encoder |-> enc, raised |-> e, X |-> NoInputs, Y |-> <<>>]

\* the slip "fit the vocabulary once": a fitted encoder is kept
load_dataset_fit_once(df, self_encoder, maxlen) ==
    LET enc == IF self_encoder.fitted THEN self_encoder
               ELSE LabelEncoder_fit(Column(df, "label"))
        sents == get_sents_from_df(df)
    IN  IF sents.raised # "none" THEN NoDataset(enc, sents.raised)
        ELSE LET X == encode_inputs(sents.value, maxlen)
                 Y == encode_outputs(sents.value, enc, maxlen)
             IN  IF X.raised # "none" THEN NoDataset(enc, X.raised)
                 ELSE IF Y.raised # "none" THEN NoDataset(enc, Y.raised)
                 ELSE [encoder |-> enc, raised |-> "none", X |-> X.value, Y |-> Y.value]

\* load_dataset(fn) up to the np.array of encode_outputs: df is the frame
\* read from fn.  Gives the encoder as (re)fit, the exception raised if any,
\* and (X, Y)
load_dataset(df, self_encoder, maxlen) ==
    LET enc == LabelEncoder_fit(Column(df, "label"))
        sents == get_sents_from_df(df)
    IN  IF sents.raised # "none" THEN NoDataset(enc, sents.raised)
        ELSE LET X == encode_inputs(sents.value, maxlen)
                 Y == encode_outputs(sents.value, enc, maxlen)
             IN  IF X.raised # "none" THEN NoDataset(enc, X.raised)
                 ELSE IF Y.raised # "none" THEN NoDataset(enc, Y.raised)
                 ELSE [encoder |-> enc, raised |-> "none", X |-> X.value, Y |-> Y.value]

\* the ways the np.array of encode_outputs can end for the dataset d
NpOutcomes(d) ==
    IF d.raised = "none" /\ ~Rectangular(d.Y) THEN NpRagged ELSE {"object_array"}

\* the dataset d after that np.array
np_array(d, np_ragged) ==
    IF np_ragged = "ValueError" THEN NoDataset(d.encoder, "ValueError") ELSE d

---------------------------------------------------------------------------
(* The instance *)

\* RNN_model.__init__: the encoder is a fresh LabelEncoder (no classes_),
\* and no self.model exists
NewEncoder == [fitted |-> FALSE, classes_ |-> <<>>]
NoModel == [built |-> FALSE, input_length |-> 0, output_dim |-> 0]
NoCall == [op |-> "none", raised |-> "none"]
NothingLoaded == [any |-> FALSE, labels |-> {}]

InitInstance ==
    /\ sent_maxlen \in 1..MaxSentMaxlen
    /\ encoder = NewEncoder
    /\ model = NoModel
    /\ call = NoCall
    /\ loaded = NothingLoaded

---------------------------------------------------------------------------
(* The network and the framework *)

\* set_vanilla_model, the model_fn of __main__: the softmax layer asks for
\* num_of_classes(), which reads encoder.classes_; a LabelEncoder that was
\* never fit has no classes_ (AttributeError) and self.model is not assigned
set_vanilla_model(enc, maxlen) ==
    IF ~enc.fitted THEN [raised |-> "AttributeError", value |-> NoModel]
    ELSE Return([built |-> TRUE, input_length |-> maxlen,
                 output_dim |-> num_of_classes(enc)])

\* keras checks every array fed to the network against the layer shapes
InputShapeOk(X, m) ==
    /\ \A i \in DOMAIN X.word_inputs : Len(X.word_inputs[i]) = m.input_length
    /\ \A i \in DOMAIN X.predicate_inputs :
           Len(X.predicate_inputs[i]) = m.input_length

TargetShapeOk(Y, m) ==
    \A i \in DOMAIN Y :
        /\ Len(Y[i]) = m.input_length
        /\ \A j \in DOMAIN Y[i] : Len(Y[i][j]) = m.output_dim

\* self.model.fit(X, Y, ...)
model_fit(m, X, Y) ==
    IF InputShapeOk(X, m) /\ TargetShapeOk(Y, m) THEN "none" ELSE "ShapeError"

\* self.model.predict(X)
model_predict(m, X) ==
    IF InputShapeOk(X, m) THEN "none" ELSE "ShapeError"

---------------------------------------------------------------------------
(* Spec: the calls on one instance.  A file is the data frame read_csv     *)
(* makes of it.                                                            *)

Corpus == FramesUpTo(MaxFileRows, 0..(MaxFileRows - 1))

Loaded(df) == [any |-> TRUE, labels |-> {df[k].label : k \in DOMAIN df}]

\* the slip "build the network first, then load": d is the dataset loaded
TrainOutcome_build_first(d) ==
    LET m == set_vanilla_model(encoder, sent_maxlen)
    IN  IF m.raised # "none"
        THEN [encoder |-> encoder, model |-> model, raised |-> m.raised]
        ELSE IF d.raised # "none"
        THEN [encoder |-> d.encoder, model |-> m.value, raised |-> d.raised]
        ELSE [encoder |-> d.encoder, model |-> m.value,
              raised |-> model_fit(m.value, d.X, d.Y)]

\* train(train_fn) after its load_dataset returned or raised (d): model_fn(),
\* then model.fit
TrainOutcome(d) ==
    LET m == set_vanilla_model(d.encoder, sent_maxlen)
    IN  IF d.raised # "none"
        THEN [encoder |-> d.encoder, model |-> model, raised |-> d.raised]
        ELSE IF m.raised # "none"
        THEN [encoder |-> d.encoder, model |-> model, raised |-> m.raised]
        ELSE [encoder |-> d.encoder, model |-> m.value,
              raised |-> model_fit(m.value, d.X, d.Y)]

\* train(train_fn)
Train ==
    \E df \in Corpus :
        LET d0 == load_dataset(df, encoder, sent_maxlen)
        IN  \E np_ragged \in NpOutcomes(d0) :
                LET o == TrainOutcome(np_array(d0, np_ragged))
                IN  /\ encoder' = o.encoder
                    /\ model' = o.model
                    /\ loaded' = Loaded(df)
                    /\ call' = [op |-> "train", raised |-> o.raised]
                    /\ UNCHANGED <<sent_maxlen, args, ret>>

\* the part test and predict share, after load_dataset returned or raised
\* (d): self.model.predict(X); self.model does not exist before the network
\* is built (AttributeError)
RunOutcome(d) ==
    IF d.raised # "none" THEN d.raised
    ELSE IF ~model.built THEN "AttributeError"
    ELSE model_predict(model, d.X)

\* test(test_fn); the scoring of the prediction is the framework's
Test ==
    \E df \in Corpus :
        LET d0 == load_dataset(df, encoder, sent_maxlen)
        IN  \E np_ragged \in NpOutcomes(d0) :
                LET d == np_array(d0, np_ragged)
                IN  /\ encoder' = d.encoder
                    /\ loaded' = Loaded(df)
                    /\ call' = [op |-> "test", raised |-> RunOutcome(d)]
                    /\ UNCHANGED <<sent_maxlen, model, args, ret>>

\* predict(input_fn)
Predict ==
    \E df \in Corpus :
        LET d0 == load_dataset(df, encoder, sent_maxlen)
        IN  \E np_ragged \in NpOutcomes(d0) :
                LET d == np_array(d0, np_ragged)
                IN  /\ encoder' = d.encoder
                    /\ loaded' = Loaded(df)
                    /\ call' = [op |-> "predict", raised |-> RunOutcome(d)]
                    /\ UNCHANGED <<sent_maxlen, model, args, ret>>

\* plot(fn, train_fn): load_dataset, model_fn(), plot
Plot ==
    \E df \in Corpus :
        LET d0 == load_dataset(df, encoder, sent_maxlen)
        IN  \E np_ragged \in NpOutcomes(d0) :
                LET d == np_array(d0, np_ragged)
                    m == set_vanilla_model(d.encoder, sent_maxlen)
                IN  /\ encoder' = d.encoder
                    /\ loaded' = Loaded(df)
                    /\ model' = IF d.raised = "none" /\ m.raised = "none"
                                THEN m.value ELSE model
                    /\ call' = [op |-> "plot",
                                raised |-> IF d.raised # "none" THEN d.raised
                                           ELSE m.raised]
                    /\ UNCHANGED <<sent_maxlen, args, ret>>

\* self.model_fn() called on its own
BuildModel ==
    LET m == set_vanilla_model(encoder, sent_maxlen)
    IN  /\ model' = IF m.raised = "none" THEN m.value ELSE model
        /\ call' = [op |-> "model_fn", raised |-> m.raised]
        /\ UNCHANGED <<sent_maxlen, encoder, args, ret, loaded>>

Init ==
    /\ InitInstance
    /\ args = [fn |-> "none"]
    /\ ret = <<>>

Next ==
    \/ Train
    \/ Test
    \/ Predict
    \/ Plot
    \/ BuildModel

Spec == Init /\ [][Next]_vars

---------------------------------------------------------------------------
(* SpecCalls: one call on one argument *)

CallPadSequences ==
    /\ call.op = "none"
    /\ args.fn = "pad_sequences"
    /\ LET r == pad_sequences(args.sequences, args.pad, args.maxlen)
       IN  /\ call' = [op |-> "pad_sequences", raised |-> r.raised]
           /\ ret' = r.value
    /\ UNCHANGED <<sent_maxlen, encoder, model, args, loaded>>

CallGetSents ==
    /\ call.op = "none"
    /\ args.fn = "get_sents_from_df"
    /\ LET r == get_sents_from_df(args.df)
       IN  /\ call' = [op |-> "get_sents_from_df", raised |-> r.raised]
           /\ ret' = r.value
    /\ UNCHANGED <<sent_maxlen, encoder, model, args, loaded>>

CallLoadDataset ==
    /\ call.op = "none"
    /\ args.fn = "load_dataset"
    /\ LET d0 == load_dataset(args.df, encoder, sent_maxlen)
       IN  \E np_ragged \in NpOutcomes(d0) :
               LET d == np_array(d0, np_ragged)
               IN  /\ encoder' = d.encoder
                   /\ loaded' = Loaded(args.df)
                   /\ call' = [op |-> "load_dataset", raised |-> d.raised]
                   /\ ret' = [X |-> d.X, Y |-> d.Y]
    /\ UNCHANGED <<sent_maxlen, model, args>>

\* the arguments: a collection of at most MaxSeqs sequences of at most
\* MaxSeqLen elements, or a frame of at most MaxRows rows
InitPadArgs ==
    \E n \in 0..MaxSeqs : \E lens \in [1..n -> 0..MaxSeqLen] :
        \E p \in Pads, m \in MaxlenArgs :
            args = [fn |-> "pad_sequences", sequences |-> Numbered(lens),
                    pad |-> p, maxlen |-> m]

InitFrameArgs ==
    \E n \in 0..MaxRows : \E c \in [1..n -> (0..MaxRunId) \X Labels] :
        \E fn \in {"get_sents_from_df", "load_dataset"} :
            args = [fn |-> fn, df |-> Frame(c)]

\* sent_maxlen is read by load_dataset only
InitCalls ==
    /\ InitPadArgs \/ InitFrameArgs
    /\ InitInstance
    /\ args.fn # "load_dataset" => sent_maxlen = 1
    /\ ret = <<>>

NextCalls ==
    \/ CallPadSequences
    \/ CallGetSents
    \/ CallLoadDataset

SpecCalls == InitCalls /\ [][NextCalls]_vars

---------------------------------------------------------------------------
(* What the properties below read *)

PadCalled == call.op = "pad_sequences"
SentsCalled == call.op = "get_sents_from_df"
LoadCalled == call.op = "load_dataset"
LoadReturned == LoadCalled /\ call.raised = "none"

Lens(sequences) == [i \in DOMAIN sequences |-> Len(sequences[i])]

\* the length the specification gives the padded sequences
EffectiveLength(sequences, maxlen) ==
    IF maxlen = None THEN MaxOf(Lens(sequences))
    ELSE Min(maxlen[1], MaxOf(Lens(sequences)))

RunIdsOf(df) == {df[k].run_id : k \in DOMAIN df}
LowestId(df) == CHOOSE m \in RunIdsOf(df) : \A r \in RunIdsOf(df) : m <= r
HighestId(df) == CHOOSE m \in RunIdsOf(df) : \A r \in RunIdsOf(df) : r <= m

\* the rows of df whose run_id is id
RowsOf(df, id) == {k \in DOMAIN df : df[k].run_id = id}

\* row k is the j-th row of its sentence
PositionInSentence(df, k) ==
    Cardinality({k2 \in RowsOf(df, df[k].run_id) : k2 <= k})

Example == <<<<1, 2, 3>>, <<4, 5>>>>

---------------------------------------------------------------------------
(* C1: for a non-empty collection, pad_sequences returns one sequence per  *)
(* input sequence, in the input order, all of one length L, where          *)
(* L = min(maxlen, longest input length) when maxlen is given and          *)
(* L = longest input length when maxlen is None.                           *)

C1_EqualLength ==
    (PadCalled /\ args.sequences # <<>>) =>
        LET L == EffectiveLength(args.sequences, args.maxlen)
        IN  /\ call.raised = "none"
            /\ Len(ret) = Len(args.sequences)
            /\ \A i \in DOMAIN ret :
                  /\ Len(ret[i]) = L
                  /\ \A j \in 1..Min(L, Len(args.sequences[i])) :
                        ret[i][j] = args.sequences[i][j]

\* a longer maxlen than any sequence: the longest sequence decides
C1_Witness ==
    /\ PadCalled
    /\ args.sequences = Example
    /\ args.maxlen = Some(4)
    /\ \A i \in DOMAIN ret : Len(ret[i]) = 3

---------------------------------------------------------------------------
(* C2: with effective length L, a sequence of at least L elements comes    *)
(* back as its first L elements, a shorter one comes back unchanged        *)
(* followed by L - len values of pad_func.                                 *)

C2_General ==
    (PadCalled /\ args.sequences # <<>>) =>
        LET L == EffectiveLength(args.sequences, args.maxlen)
        IN  \A i \in DOMAIN args.sequences :
                LET seq == args.sequences[i]
                IN  IF Len(seq) >= L
                    THEN ret[i] = SubSeq(seq, 1, L)
                    ELSE ret[i] = seq \o [k \in 1..(L - Len(seq)) |-> args.pad]

ExampleCall(maxlen) ==
    /\ PadCalled
    /\ args.sequences = Example
    /\ args.pad = 0
    /\ args.maxlen = Some(maxlen)

\* C2 as stated: the example with maxlen 4 gives [[1,2,3,0],[4,5,0,0]]
C2_AsStated ==
    /\ C2_General
    /\ ExampleCall(4) => ret = <<<<1, 2, 3, 0>>, <<4, 5, 0, 0>>>>
    /\ ExampleCall(2) => ret = <<<<1, 2>>, <<4, 5>>>>

\* C2 as amended: the example with maxlen 4 has effective length
\* min(4, 3) = 3 and gives [[1,2,3],[4,5,0]]
C2_Amended ==
    /\ C2_General
    /\ ExampleCall(4) => ret = <<<<1, 2, 3>>, <<4, 5, 0>>>>
    /\ ExampleCall(2) => ret = <<<<1, 2>>, <<4, 5>>>>

C2_Witness ==
    /\ ExampleCall(4)
    /\ ret = <<<<1, 2, 3>>, <<4, 5, 0>>>>

---------------------------------------------------------------------------
(* C3: for a frame whose run_ids have minimum m and maximum M,             *)
(* get_sents_from_df returns M - m groups, the s-th holding exactly the    *)
(* rows of run_id m + s - 1 in file order; no row of run_id M is in any    *)
(* group; run_ids {0, 1, 2} give 2 groups.                                 *)

C3_Groups ==
    (SentsCalled /\ args.df # <<>>) =>
        LET df == args.df
            m == LowestId(df)
            M == HighestId(df)
        IN  /\ call.raised = "none"
            /\ Len(ret) = M - m
            /\ \A s \in DOMAIN ret :
                  /\ {ret[s][j] : j \in DOMAIN ret[s]} =
                         {df[k] : k \in RowsOf(df, m + s - 1)}
                  /\ Len(ret[s]) = Cardinality(RowsOf(df, m + s - 1))
                  /\ \A j1, j2 \in DOMAIN ret[s] :
                         j1 < j2 => ret[s][j1].word < ret[s][j2].word
                  /\ \A j \in DOMAIN ret[s] : ret[s][j].run_id # M
            /\ RunIdsOf(df) = {0, 1, 2} => Len(ret) = 2

C3_Witness ==
    /\ SentsCalled
    /\ RunIdsOf(args.df) = {0, 1, 2}
    /\ Len(ret) = 2
    /\ Len(ret[1]) = 2

---------------------------------------------------------------------------
(* C4: when load_dataset returns, word_inputs, predicate_inputs and the    *)
(* encoded output hold the same number of sentences, every sentence has    *)
(* the same padded length in all three, and position j of sentence i is    *)
(* the j-th row of the i-th sentence group in all three (or padding in     *)
(* all three).                                                             *)

C4_Aligned ==
    LoadReturned =>
        LET df == args.df
            W == ret.X.word_inputs
            P == ret.X.predicate_inputs
            Y == ret.Y
        IN  /\ Len(W) = Len(Y)
            /\ Len(P) = Len(Y)
            /\ \A i \in DOMAIN Y :
                  /\ Len(W[i]) = Len(Y[i])
                  /\ Len(P[i]) = Len(Y[i])
                  /\ \A i2 \in DOMAIN Y : Len(Y[i2]) = Len(Y[i])
                  /\ \A j \in DOMAIN Y[i] :
                        IF j <= Cardinality(RowsOf(df, LowestId(df) + i - 1))
                        THEN \E k \in RowsOf(df, LowestId(df) + i - 1) :
                                /\ PositionInSentence(df, k) = j
                                /\ W[i][j] = get_word_index(df[k].word)
                                /\ P[i][j] = get_word_index(df[k].pred)
                                /\ LET c == searchsorted(encoder.classes_, df[k].label) + 1
                                   IN  c \in DOMAIN Y[i][j] /\ Y[i][j][c] = 1
                        ELSE /\ W[i][j] = 0
                             /\ P[i][j] = 0
                             /\ \A c \in DOMAIN Y[i][j] : Y[i][j][c] = 0

\* two sentences, the first of two rows, the second padded
C4_Witness ==
    /\ LoadReturned
    /\ Len(ret.Y) = 2
    /\ Len(ret.X.word_inputs[1]) = 2
    /\ ret.X.word_inputs[2][2] = 0
    /\ ret.X.predicate_inputs[1][2] # 0

---------------------------------------------------------------------------
(* C5: after any sequence of calls the label vocabulary is the one fit on  *)
(* the file loaded last: its classes are exactly the distinct labels of    *)
(* that file, whatever was loaded before; a test or predict on a file      *)
(* whose labels differ from the training file's raises nothing for that.   *)

C5_LastFileVocabulary ==
    /\ ~loaded.any => ~encoder.fitted
    /\ loaded.any =>
          /\ encoder.fitted
          /\ {encoder.classes_[k] : k \in DOMAIN encoder.classes_} = loaded.labels
          /\ Len(encoder.classes_) = Cardinality(loaded.labels)

\* a test or predict that returned on a file with fewer labels than the
\* network was built for
C5_Witness ==
    /\ call.op \in {"test", "predict"}
    /\ call.raised = "none"
    /\ model.built
    /\ model.output_dim = 2
    /\ loaded.labels = {1}
    /\ encoder.classes_ = <<1>>

---------------------------------------------------------------------------
(* C6: a network exists only once a dataset has been loaded; a train that  *)
(* got its dataset leaves a network whose output width is the number of    *)
(* distinct labels of its file; model_fn, test and predict on an instance  *)
(* that has loaded nothing raise and leave no network.                     *)

C6_State ==
    /\ model.built => (loaded.any /\ encoder.fitted)
    /\ (call.op = "train" /\ call.raised \in {"none", "ShapeError"}) =>
          /\ model.built
          /\ model.output_dim = Cardinality(loaded.labels)
          /\ model.input_length = sent_maxlen

C6_Step ==
    (~loaded.any /\ call'.op \in {"model_fn", "test", "predict"}) =>
        (call'.raised # "none" /\ ~model'.built)

\* C6: the two state conditions hold in every state, and every model_fn,
\* test or predict step of an instance that has loaded nothing raises
C6_NetworkAfterLoad == []C6_State /\ [][C6_Step]_vars

C6_Witness ==
    /\ call = [op |-> "train", raised |-> "none"]
    /\ model.built
    /\ model.output_dim = 2

---------------------------------------------------------------------------
(* C7: once the vocabulary is fit on a file, every label of the file       *)
(* encodes to an index in 0..n-1 (n the number of distinct labels) that    *)
(* decode_label maps back to the label, and distinct labels get distinct   *)
(* indices.                                                                *)

Encode(l) == LabelEncoder_transform(encoder, <<l>>)[1]

\* C7: encode then decode_label is the identity on the labels of the file,
\* and encoding is one-to-one into 0..n-1
C7_RoundTrip ==
    LoadCalled =>
        LET n == Cardinality(loaded.labels)
        IN  /\ \A l \in loaded.labels :
                  /\ Encode(l) \in 0..(n - 1)
                  /\ decode_label(encoder, Encode(l)) = l
            /\ \A l1, l2 \in loaded.labels : l1 # l2 => Encode(l1) # Encode(l2)

\* two labels, read in descending order
C7_Witness ==
    /\ LoadCalled
    /\ Len(args.df) >= 2
    /\ args.df[1].label = 2
    /\ args.df[2].label = 1
    /\ Encode(2) = 1

---------------------------------------------------------------------------
(* C8: pad_sequences on an empty collection raises and returns nothing,    *)
(* for every maxlen and pad_func; so does load_dataset on a frame whose    *)
(* rows all share one run_id (it makes no sentence group).                 *)

C8_EmptyRaises ==
    /\ (PadCalled /\ args.sequences = <<>>) =>
          (call.raised = "ValueError" /\ ret = <<>>)
    /\ (LoadCalled /\ Cardinality(RunIdsOf(args.df)) = 1) =>
          (call.raised = "ValueError" /\ ret = [X |-> NoInputs, Y |-> <<>>])

C8_Witness ==
    /\ PadCalled
    /\ args.sequences = <<>>
    /\ args.maxlen = Some(2)
    /\ call.raised = "ValueError"

---------------------------------------------------------------------------
(* C9: every sequence of word_inputs and of predicate_inputs has length    *)
(* exactly sent_maxlen.                                                    *)

C9_LengthIsSentMaxlen ==
    LoadReturned =>
        /\ \A i \in DOMAIN ret.X.word_inputs :
              Len(ret.X.word_inputs[i]) = sent_maxlen
        /\ \A i \in DOMAIN ret.X.predicate_inputs :
              Len(ret.X.predicate_inputs[i]) = sent_maxlen

---------------------------------------------------------------------------
(* C10: every class vector of the encoded output has as many entries as    *)
(* the vocabulary has classes; at the position of a row it holds exactly   *)
(* one 1, at the index of the row's label; at a padding position it holds  *)
(* only zeros.                                                             *)

C10_ClassVectorWidth ==
    LoadReturned =>
        \A i \in DOMAIN ret.Y : \A j \in DOMAIN ret.Y[i] :
            LET v == ret.Y[i][j]
                rows == RowsOf(args.df, LowestId(args.df) + i - 1)
            IN  /\ Len(v) = num_of_classes(encoder)
                /\ IF j <= Cardinality(rows)
                   THEN \E k \in rows :
                           /\ PositionInSentence(args.df, k) = j
                           /\ {c \in DOMAIN v : v[c] = 1} =
                                  {searchsorted(encoder.classes_, args.df[k].label) + 1}
                           /\ \A c \in DOMAIN v : v[c] \in {0, 1}
                   ELSE \A c \in DOMAIN v : v[c] = 0

====
